---------------------------- MODULE Spec2Model ----------------------------
(***************************************************************************)
(* A model of go-monkeyi: the tree-walking evaluator                      *)
(* (src/evaluator/evaluator.go) and the parser (src/unnamed/part_000).    *)
(*                                                                         *)
(* Syntax-tree nodes and runtime objects are tagged tuples whose first    *)
(* element is the Go type of the node or the object's Type().  Objects    *)
(* that the evaluator allocates and that it may later compare by pointer   *)
(* (ReturnValue, Function, Error) carry the address they were allocated    *)
(* at; TRUE, FALSE and NULL are the package-level singletons.              *)
(*                                                                         *)
(* SpecEval runs evalProgram one loop iteration per step against an       *)
(* environment that starts empty, so every environment the model reaches  *)
(* was built by let statements the evaluator itself executed.             *)
(* SpecParse runs ParseProgram one loop iteration per step over a token   *)
(* stream drawn from a bounded set.                                       *)
(***************************************************************************)
EXTENDS Integers, Sequences, FiniteSets, TLC

\* ------------------------------------------------------------------ bounds

\* Integer literals of the generated statements are 0..MaxInt.
MaxInt == 1
\* evalProgram is given at most MaxStmts statements.
MaxStmts == 2

\* ------------------------------------------------------- runtime objects

O_INTEGER == "INTEGER"
O_BOOLEAN == "BOOLEAN"
O_NULL == "NULL"
O_RETURN_VALUE == "RETURN_VALUE"
O_ERROR == "ERROR"
O_FUNCTION == "FUNCTION"

\* Go's nil interface value: what Eval returns when no case produces a value.
Nil == <<"nil">>

NULL == <<O_NULL>>
TRUE_OBJ == <<O_BOOLEAN, TRUE>>
FALSE_OBJ == <<O_BOOLEAN, FALSE>>
FALSY_VALUES == {NULL, FALSE_OBJ}

Integer(n) == <<O_INTEGER, n>>
ReturnValue(v, addr) == <<O_RETURN_VALUE, v, addr>>
Function(params, body, addr) == <<O_FUNCTION, params, body, addr>>
Error(msg, addr) == <<O_ERROR, msg, addr>>

\* A run-time panic of the Go process (nil dereference, division by zero).
Panic(why) == <<"PANIC", why>>
IsPanic(v) == v[1] = "PANIC"

\* obj.Type() of a non-nil object.
Type(obj) == obj[1]

\* ---------------------------------------------------------- environment

\* object.Environment of a top-level evaluation: a map from names to objects.
Names == {"a", "b"}
Unbound == <<"unbound">>
NewEnvironment == [n \in Names |-> Unbound]
Get(e, name) == [val |-> e[name], ok |-> e[name] # Unbound]
Set(e, name, val) == [e EXCEPT ![name] = val]

\* ------------------------------------------------- evaluator: the machine

\* What an evaluation threads through: the environment, the next free heap
\* address, and the number of Eval calls made so far.
Machine(e, h) == [env |-> e, heap |-> h, calls |-> 0]
R(v, m) == [val |-> v, m |-> m]
Alloc(m) == [m EXCEPT !.heap = @ + 1]

ERR_PREFIX_UNKNOWN(op, t) == "unknown operator: " \o op \o t
ERR_INFIX_UNKNOWN(t1, op, t2) == "unknown operator: " \o t1 \o " " \o op \o " " \o t2
ERR_INFIX_MISMATCH(t1, op, t2) == "type mismatch: " \o t1 \o " " \o op \o " " \o t2
ERR_IDENTIFIER_UNKNOWN(name) == "unknown identifier: " \o name

\* A faulty truthiness that also takes the integer zero for falsy.
isTruthyZeroFalsy(obj) == obj \notin FALSY_VALUES \cup {Integer(0)}

\* isTruthy: what is not one of the FALSY_VALUES (compared by pointer).
isTruthy(obj) == obj \notin FALSY_VALUES

newError(msg, m) == R(Error(msg, m.heap), Alloc(m))

\* A faulty isError that tests for the wrong object type.
isErrorWrongType(obj) == IF obj # Nil THEN Type(obj) = O_RETURN_VALUE ELSE FALSE

isError(obj) == IF obj # Nil THEN Type(obj) = O_ERROR ELSE FALSE

nativeBooleanToObject(input) == IF input THEN TRUE_OBJ ELSE FALSE_OBJ

evalBangOperatorExpression(operand) ==
    IF isTruthy(operand) THEN FALSE_OBJ ELSE TRUE_OBJ

evalDashOperatorExpression(operand, m) ==
    IF operand = Nil THEN R(Panic("nil dereference"), m)
    ELSE IF Type(operand) # O_INTEGER
    THEN newError(ERR_PREFIX_UNKNOWN("-", Type(operand)), m)
    ELSE R(Integer(-operand[2]), m)

evalPrefixExpression(operator, operand, m) ==
    CASE operator = "!" -> R(evalBangOperatorExpression(operand), m)
      [] operator = "-" -> evalDashOperatorExpression(operand, m)
      [] OTHER -> IF operand = Nil THEN R(Panic("nil dereference"), m)
                  ELSE newError(ERR_PREFIX_UNKNOWN(operator, Type(operand)), m)

\* Go's integer division truncates toward zero.
Quot(x, y) ==
    LET ax == IF x < 0 THEN -x ELSE x
        ay == IF y < 0 THEN -y ELSE y
        q == ax \div ay
    IN  IF (x < 0) = (y < 0) THEN q ELSE -q

evalIntegerInfixExpression(operator, left, right, m) ==
    LET leftInt == left[2]
        rightInt == right[2]
    IN  CASE operator = "+" -> R(Integer(leftInt + rightInt), m)
          [] operator = "-" -> R(Integer(leftInt - rightInt), m)
          [] operator = "*" -> R(Integer(leftInt * rightInt), m)
          [] operator = "/" -> IF rightInt = 0
                               THEN R(Panic("integer divide by zero"), m)
                               ELSE R(Integer(Quot(leftInt, rightInt)), m)
          [] operator = "==" -> R(nativeBooleanToObject(leftInt = rightInt), m)
          [] operator = "!=" -> R(nativeBooleanToObject(leftInt # rightInt), m)
          [] operator = "<" -> R(nativeBooleanToObject(leftInt < rightInt), m)
          [] operator = ">" -> R(nativeBooleanToObject(leftInt > rightInt), m)
          [] OTHER -> newError(ERR_INFIX_UNKNOWN(Type(left), operator, Type(right)), m)

evalInfixExpression(operator, left, right, m) ==
    IF left = Nil \/ right = Nil THEN R(Panic("nil dereference"), m)
    ELSE CASE Type(left) # Type(right) ->
                newError(ERR_INFIX_MISMATCH(Type(left), operator, Type(right)), m)
           [] Type(left) = O_INTEGER /\ Type(right) = O_INTEGER ->
                evalIntegerInfixExpression(operator, left, right, m)
           [] Type(left) = Type(right) /\ Type(left) # O_INTEGER /\ operator = "==" ->
                R(nativeBooleanToObject(left = right), m)
           [] Type(left) = Type(right) /\ Type(left) # O_INTEGER /\ operator = "!=" ->
                R(nativeBooleanToObject(left # right), m)
           [] OTHER ->
                newError(ERR_INFIX_UNKNOWN(Type(left), operator, Type(right)), m)

evalIdentifier(node, m) ==
    LET got == Get(m.env, node[2])
    IN  IF ~got.ok THEN newError(ERR_IDENTIFIER_UNKNOWN(node[2]), m)
        ELSE R(got.val, m)

\* A faulty test that lets the loop run on past a ReturnValue.
blockReturnsEarlyErrorOnly(r) ==
    IF r # Nil THEN isError(r) ELSE FALSE

\* The test of evalBlockStatement's loop: leave the loop with this result?
blockReturnsEarly(r) ==
    IF r # Nil
    THEN Type(r) = O_RETURN_VALUE \/ isError(r)
    ELSE FALSE

\* A faulty let that leaves an existing binding of the name alone.
letBindsUnboundOnly(name, val, m) ==
    R(Nil, [m EXCEPT !.env = IF @[name] = Unbound THEN Set(@, name, val) ELSE @])

\* The let case of Eval once its value is known not to be an Error: env.Set,
\* and the fall through to Eval's final return nil.
letBinds(name, val, m) ==
    R(Nil, [m EXCEPT !.env = Set(@, name, val)])

RECURSIVE Eval(_, _)
RECURSIVE evalBlockStatement(_, _, _, _)
RECURSIVE evalIfExpression(_, _)

Eval(node, m0) ==
    LET m == [m0 EXCEPT !.calls = @ + 1]
    IN  CASE node[1] = "BlockStatement" -> evalBlockStatement(node[2], 1, Nil, m)
          [] node[1] = "ExpressionStatement" -> Eval(node[2], m)
          [] node[1] = "ReturnStatement" ->
                LET val == Eval(node[2], m)
                IN  IF IsPanic(val.val) \/ isError(val.val) THEN val
                    ELSE R(ReturnValue(val.val, val.m.heap), Alloc(val.m))
          [] node[1] = "LetStatement" ->
                LET val == Eval(node[3], m)
                IN  IF IsPanic(val.val) \/ isError(val.val) THEN val
                    ELSE letBinds(node[2], val.val, val.m)
          [] node[1] = "BooleanLiteral" -> R(nativeBooleanToObject(node[2]), m)
          [] node[1] = "IntegerLiteral" -> R(Integer(node[2]), m)
          [] node[1] = "FunctionLiteral" ->
                R(Function(node[2], node[3], m.heap), Alloc(m))
          [] node[1] = "PrefixExpression" ->
                LET operand == Eval(node[3], m)
                IN  IF IsPanic(operand.val) \/ isError(operand.val) THEN operand
                    ELSE evalPrefixExpression(node[2], operand.val, operand.m)
          [] node[1] = "InfixExpression" ->
                LET left == Eval(node[3], m)
                IN  IF IsPanic(left.val) \/ isError(left.val) THEN left
                    ELSE LET right == Eval(node[4], left.m)
                         IN  IF IsPanic(right.val) \/ isError(right.val) THEN right
                             ELSE evalInfixExpression(node[2], left.val, right.val,
                                                      right.m)
          [] node[1] = "IfExpression" -> evalIfExpression(node, m)
          [] node[1] = "Identifier" -> evalIdentifier(node, m)
          [] OTHER -> R(Nil, m)

evalBlockStatement(statements, i, result, m) ==
    IF i > Len(statements) THEN R(result, m)
    ELSE LET r == Eval(statements[i], m)
         IN  IF IsPanic(r.val) THEN r
             ELSE IF blockReturnsEarly(r.val) THEN r
             ELSE evalBlockStatement(statements, i + 1, r.val, r.m)

evalIfExpression(ie, m) ==
    LET condition == Eval(ie[2], m)
    IN  IF IsPanic(condition.val) \/ isError(condition.val) THEN condition
        ELSE IF isTruthy(condition.val) THEN Eval(ie[3], condition.m)
        ELSE IF ie[4] # Nil THEN Eval(ie[4], condition.m)
        ELSE R(NULL, condition.m)

\* ------------------------------------------------------ syntax-tree nodes

IntegerLiteral(n) == <<"IntegerLiteral", n>>
BooleanLiteral(b) == <<"BooleanLiteral", b>>
Identifier(name) == <<"Identifier", name>>
BlockStatement(stmts) == <<"BlockStatement", stmts>>
FunctionLiteral(params, body) == <<"FunctionLiteral", params, body>>
CallExpression(fn, args) == <<"CallExpression", fn, args>>
PrefixExpression(op, right) == <<"PrefixExpression", op, right>>
InfixExpression(op, left, right) == <<"InfixExpression", op, left, right>>
IfExpression(cond, then, otherwise) == <<"IfExpression", cond, then, otherwise>>
ExpressionStatement(e) == <<"ExpressionStatement", e>>
ReturnStatement(e) == <<"ReturnStatement", e>>
LetStatement(name, e) == <<"LetStatement", name, e>>

\* The statement forms over a set of expressions.
StatementsOver(E) ==
    {ExpressionStatement(e) : e \in E} \cup {ReturnStatement(e) : e \in E}
        \cup {LetStatement(n, e) : n \in Names, e \in E}

PrefixOps == {"!", "-", "~"}
InfixOps == {"+", "-", "*", "/", "==", "!=", "<", ">", "&"}

IntLits == {IntegerLiteral(n) : n \in 0..MaxInt}
BoolLits == {BooleanLiteral(b) : b \in BOOLEAN}
Idents == {Identifier(n) : n \in Names}
Leaves ==
    IntLits \cup BoolLits \cup Idents
        \cup {FunctionLiteral(<<>>, BlockStatement(<<>>)),
              CallExpression(Identifier("a"), <<>>)}

\* Blocks of if-expressions: at most two statements over literals and names,
\* the second one a let statement (its binding shows whether it ran).
BlockStmts == StatementsOver(IntLits \cup Idents)
LetStmts == {LetStatement(n, e) : n \in Names, e \in IntLits}
Blocks1 == {BlockStatement(<<>>)} \cup {BlockStatement(<<s>>) : s \in BlockStmts}
Blocks2 == {BlockStatement(<<s, t>>) : s \in BlockStmts, t \in LetStmts}
ElseBlocks == {Nil, BlockStatement(<<ExpressionStatement(IntegerLiteral(0))>>)}
Conds == BoolLits \cup Idents
IfExprs ==
    {IfExpression(c, t, e) : c \in Conds, t \in Blocks1, e \in ElseBlocks}
        \cup {IfExpression(BooleanLiteral(TRUE), t, Nil) : t \in Blocks2}

\* Operands of infix expressions: literals, names, and an if-expression whose
\* block binds a name (so that evaluating the operand leaves a trace).
BindingIfs ==
    {IfExpression(BooleanLiteral(TRUE),
                  BlockStatement(<<LetStatement(n, IntegerLiteral(0))>>), Nil) :
        n \in Names}
Operands == IntLits \cup Idents \cup BindingIfs

PrefixExprs == {PrefixExpression(op, e) : op \in PrefixOps, e \in Leaves}
InfixExprs ==
    {InfixExpression(op, l, r) : op \in InfixOps, l \in Operands, r \in Operands}

\* An if-expression whose block binds a name and then names one: an Error
\* when that one is unbound, after the binding was made.
BindThenName ==
    {IfExpression(BooleanLiteral(TRUE),
                  BlockStatement(<<LetStatement(n, IntegerLiteral(0)),
                                   ExpressionStatement(Identifier(k))>>), Nil) :
        n \in Names, k \in Names}

\* Expressions bound by let and returned by return; expression statements
\* also take the infix expressions.
ValueExprs == Leaves \cup PrefixExprs \cup IfExprs
Exprs == ValueExprs \cup InfixExprs
Stmts ==
    {ExpressionStatement(e) : e \in Exprs}
        \cup {ReturnStatement(e) : e \in ValueExprs}
        \cup {LetStatement(n, e) : n \in Names, e \in ValueExprs \cup BindThenName}

\* ------------------------------------------------------------- parser

\* Tokens: a type and a literal.
Token(type, literal) == <<type, literal>>
EOF_TOKEN == Token("EOF", "")
LET_TOKEN == Token("LET", "let")
ASSIGN_TOKEN == Token("ASSIGN", "=")
SEMICOLON_TOKEN == Token("SEMICOLON", ";")
IDENTIFIER(name) == Token("IDENTIFIER", name)
INTEGER(digits) == Token("INTEGER", digits)
OPERATOR(op) == Token("OPERATOR", op)

\* lexer.Lexer.NextToken: the call number pos, EOF_TOKEN once the input is used up.
NextToken(input, pos) == IF pos <= Len(input) THEN input[pos] ELSE EOF_TOKEN

\* Parser.nextToken
nextToken(p) ==
    [p EXCEPT !.currentToken = p.peekToken,
              !.peekToken = NextToken(p.input, p.pos),
              !.pos = p.pos + 1]

\* parser.New: the parser after its two calls of nextToken.
New(input) ==
    nextToken(nextToken([input |-> input, pos |-> 1, currentToken |-> EOF_TOKEN,
                         peekToken |-> EOF_TOKEN, log |-> <<>>]))

\* Parser.expectPeek: (ok, the parser afterwards); a failure is logged.
expectPeek(p, t) ==
    IF p.peekToken[1] = t THEN [ok |-> TRUE, p |-> nextToken(p)]
    ELSE [ok |-> FALSE,
          p |-> [p EXCEPT !.log = Append(@, <<"unexpected token", p.peekToken[1],
                                             p.peekToken[2], t>>)]]

\* The loop of parseLetStatement that skips to the semicolon: (reached it,
\* the parser afterwards).
RECURSIVE skipToSemicolon(_)
skipToSemicolon(p) ==
    IF p.currentToken[1] = "SEMICOLON" THEN [ok |-> TRUE, p |-> p]
    ELSE IF p.currentToken[1] = "EOF" THEN [ok |-> FALSE, p |-> p]
    ELSE skipToSemicolon(nextToken(p))

\* Parser.parseLetStatement: (the statement or Nil, the parser afterwards).
\* The statement's Value is never assigned.
parseLetStatement(p) ==
    LET id == expectPeek(p, "IDENTIFIER")
    IN  IF ~id.ok THEN [stmt |-> Nil, p |-> id.p]
        ELSE LET name == id.p.currentToken[2]
                 as == expectPeek(id.p, "ASSIGN")
             IN  IF ~as.ok THEN [stmt |-> Nil, p |-> as.p]
                 ELSE LET sk == skipToSemicolon(as.p)
                      IN  IF ~sk.ok THEN [stmt |-> Nil, p |-> sk.p]
                          ELSE [stmt |-> LetStatement(name, Nil), p |-> sk.p]

\* Parser.parseStatement
parseStatement(p) ==
    IF p.currentToken[1] = "LET" THEN parseLetStatement(p)
    ELSE [stmt |-> Nil, p |-> p]

\* ------------------------------------------------------ parser: the input

\* At most MaxSource source statements make up an input.
MaxSource == 2

SrcNames == {"x", "y"}
SrcValues == {INTEGER("5"), IDENTIFIER("y")}
BinaryOps == {"+", "-", "*", "<", "=="}
UnaryOps == {"!", "-"}

\* A source statement: its tokens without the separator, what it is, and,
\* when well formed, the statement the language gives it.
Source(form, toks, stmt) == [form |-> form, toks |-> toks, stmt |-> stmt]

ValueNode(tok) ==
    IF tok[1] = "INTEGER" THEN IntegerLiteral(IF tok[2] = "5" THEN 5 ELSE 0)
    ELSE Identifier(tok[2])

LetSources ==
    {Source("let", <<LET_TOKEN, IDENTIFIER(n), ASSIGN_TOKEN, v>>, LetStatement(n, ValueNode(v))) :
        n \in SrcNames, v \in SrcValues}
NoIdentifierSources ==
    {Source("malformed", <<LET_TOKEN, ASSIGN_TOKEN, v>>, Nil) : v \in SrcValues}
NoAssignSources ==
    {Source("malformed", <<LET_TOKEN, IDENTIFIER(n), v>>, Nil) :
        n \in SrcNames, v \in SrcValues}

\* The binding strength of a binary operator: equality, comparison, sum,
\* product, from weakest to strongest.
Precedence(op) ==
    CASE op \in {"==", "!="} -> 2
      [] op \in {"<", ">"} -> 3
      [] op \in {"+", "-"} -> 4
      [] op \in {"*", "/"} -> 5

\* The tree of x o1 y o2 z: the stronger operator binds first, and operators
\* of equal strength nest to the left.
Chain(x, o1, y, o2, z) ==
    IF Precedence(o2) > Precedence(o1)
    THEN InfixExpression(o1, x, InfixExpression(o2, y, z))
    ELSE InfixExpression(o2, InfixExpression(o1, x, y), z)

IdA == Identifier("a")
IdB == Identifier("b")
IdC == Identifier("c")
TokA == IDENTIFIER("a")
TokB == IDENTIFIER("b")
TokC == IDENTIFIER("c")
LPAREN == Token("LPAREN", "(")
RPAREN == Token("RPAREN", ")")
GroupOps == {"+", "*"}
ExpressionSources ==
    {Source("expression", <<TokA>>, ExpressionStatement(IdA))}
    \cup {Source("expression", <<OPERATOR(u), TokA>>,
                 ExpressionStatement(PrefixExpression(u, IdA))) : u \in UnaryOps}
    \cup {Source("expression", <<TokA, OPERATOR(o), TokB>>,
                 ExpressionStatement(InfixExpression(o, IdA, IdB))) : o \in BinaryOps}
    \cup {Source("expression", <<TokA, OPERATOR(o1), TokB, OPERATOR(o2), TokC>>,
                 ExpressionStatement(Chain(IdA, o1, IdB, o2, IdC))) :
              o1 \in BinaryOps, o2 \in BinaryOps}
    \cup {Source("expression", <<OPERATOR(u), TokA, OPERATOR(o), TokB>>,
                 ExpressionStatement(InfixExpression(o, PrefixExpression(u, IdA), IdB))) :
              u \in UnaryOps, o \in BinaryOps}
    \cup {Source("expression",
                 <<TokA, OPERATOR(o1), LPAREN, TokB, OPERATOR(o2), TokC, RPAREN>>,
                 ExpressionStatement(InfixExpression(o1, IdA,
                                                     InfixExpression(o2, IdB, IdC)))) :
              o1 \in GroupOps, o2 \in GroupOps}

SourceStatements ==
    LetSources \cup NoIdentifierSources \cup NoAssignSources \cup ExpressionSources

\* An input: source statements, each followed by its separator, except that
\* the last one may go without.
Sources ==
    {<<>>} \cup
    UNION {[1..n -> SourceStatements] : n \in 1..MaxSource}

Tokens(srcs, terminated) ==
    LET RECURSIVE cat(_)
        cat(i) ==
            IF i > Len(srcs) THEN <<>>
            ELSE srcs[i].toks
                 \o (IF i < Len(srcs) \/ terminated THEN <<SEMICOLON_TOKEN>> ELSE <<>>)
                 \o cat(i + 1)
    IN  cat(1)

\* ---------------------------------------------------------- the state

\* The evaluator: evalProgram's environment, the next free heap address, its
\* local result, what it returned, where it is, the number of statements
\* evaluated, and the statement whose evaluation ended it (Nil before that).
\* The parser: the input's source statements, the Parser, the program's
\* statements so far, and where ParseProgram is.
VARIABLES env, heap, result, ret, pc, count, last,
          source, parser, program, ppc

evars == <<env, heap, result, ret, pc, count, last>>
pvars == <<source, parser, program, ppc>>
vars == <<evars, pvars>>

InitParse ==
    /\ env = NewEnvironment
    /\ heap = 1
    /\ result = Nil
    /\ ret = Nil
    /\ pc = "loop"
    /\ count = 0
    /\ last = Nil
    /\ \E srcs \in Sources, terminated \in BOOLEAN :
          /\ srcs = <<>> => terminated
          /\ source = [stmts |-> srcs, terminated |-> terminated]
          /\ parser = New(Tokens(srcs, terminated))
    /\ program = <<>>
    /\ ppc = "parsing"

\* One iteration of ParseProgram's loop on a let token.
parseProgramLet ==
    /\ ppc = "parsing"
    /\ parser.currentToken[1] = "LET"
    /\ LET r == parseStatement(parser)
       IN  /\ program' = IF r.stmt # Nil THEN Append(program, r.stmt) ELSE program
           /\ parser' = nextToken(r.p)
    /\ UNCHANGED <<source, ppc>>
    /\ UNCHANGED evars

\* One iteration of ParseProgram's loop on any other token.
parseProgramOther ==
    /\ ppc = "parsing"
    /\ parser.currentToken[1] \notin {"LET", "EOF"}
    /\ LET r == parseStatement(parser)
       IN  /\ program' = IF r.stmt # Nil THEN Append(program, r.stmt) ELSE program
           /\ parser' = nextToken(r.p)
    /\ UNCHANGED <<source, ppc>>
    /\ UNCHANGED evars

\* ParseProgram's loop ends at EOF_TOKEN and the program is returned.
parseProgramReturn ==
    /\ ppc = "parsing"
    /\ parser.currentToken[1] = "EOF"
    /\ ppc' = "done"
    /\ UNCHANGED <<source, parser, program>>
    /\ UNCHANGED evars

NextParse ==
    \/ parseProgramLet
    \/ parseProgramOther
    \/ parseProgramReturn

\* --------------------------------------------------- evaluator: the state

\* What evalProgram's switch on the statement's result decides.
programReturnsEarly(r) ==
    CASE r # Nil /\ Type(r) = O_RETURN_VALUE -> [stop |-> TRUE, value |-> r[2]]
      [] r # Nil /\ Type(r) = O_ERROR -> [stop |-> TRUE, value |-> r]
      [] OTHER -> [stop |-> FALSE, value |-> r]

InitEval ==
    /\ env = NewEnvironment
    /\ heap = 1
    /\ result = Nil
    /\ ret = Nil
    /\ pc = "loop"
    /\ count = 0
    /\ last = Nil
    /\ source = [stmts |-> <<>>, terminated |-> TRUE]
    /\ parser = New(<<>>)
    /\ program = <<>>
    /\ ppc = "parsing"

\* One iteration of evalProgram's loop over the statements.
evalProgramStep(stmt) ==
    /\ pc = "loop"
    /\ count < MaxStmts
    /\ count' = count + 1
    /\ LET r == Eval(stmt, Machine(env, heap))
       IN  /\ env' = r.m.env
           /\ heap' = r.m.heap
           /\ result' = r.val
           /\ IF IsPanic(r.val)
              THEN pc' = "panicked" /\ ret' = ret
              ELSE LET d == programReturnsEarly(r.val)
                   IN  IF d.stop THEN pc' = "returned" /\ ret' = d.value
                       ELSE pc' = "loop" /\ ret' = ret
           /\ last' = IF pc' = "loop" THEN Nil ELSE stmt
    /\ UNCHANGED pvars

\* The loop has no statement left: evalProgram returns result.
evalProgramEnd ==
    /\ pc = "loop"
    /\ pc' = "returned"
    /\ ret' = result
    /\ UNCHANGED <<env, heap, result, count, last>>
    /\ UNCHANGED pvars

NextEval ==
    \/ \E stmt \in Stmts : evalProgramStep(stmt)
    \/ evalProgramEnd

\* ----------------------------------------------------- the specifications

\* The evaluator, with the parser idle on the empty input.
SpecEval == InitEval /\ [][NextEval]_vars

\* The parser, with the evaluator idle.
SpecParse == InitParse /\ [][NextParse]_vars

\* ------------------------------------------------------ claims: evaluator

\* The machine evalProgram hands to Eval in the current state, and the one a
\* node hands to the first child it evaluates.
Here == Machine(env, heap)
Inside == [Here EXCEPT !.calls = 1]
\* evalProgram is about to evaluate a statement.
Running == pc = "loop" /\ count < MaxStmts

IsReturnValue(v) == v[1] = O_RETURN_VALUE
IsErrorValue(v) == v[1] = O_ERROR

\* C1: the value Eval returns for a Program is never a ReturnValue.
C1_ProgramNeverYieldsReturnValue ==
    pc = "returned" => ~IsReturnValue(ret)

\* C2: Eval never aborts the host process: no evaluation ends in a panic.
C2_EvalNeverPanics ==
    pc # "panicked"

\* C3: a Program or Block stops at the first statement that produces a
\* ReturnValue or an Error.  Program: the loop goes on only past a result
\* that is neither, and what it returns when it stops is that statement's
\* value (a ReturnValue unwrapped).  Block: when the first of two statements
\* produces a ReturnValue or an Error, the block yields that very value and
\* leaves the environment, the heap and the count of Eval calls as that
\* statement left them, so the second statement was not evaluated.
C3_StopsAtReturnOrError ==
    /\ pc = "loop" => ~(IsReturnValue(result) \/ IsErrorValue(result))
    /\ pc = "returned" /\ IsReturnValue(result) => ret = result[2]
    /\ pc = "returned" /\ IsErrorValue(result) => ret = result
    /\ Running =>
          \A b \in Blocks2 :
              LET first == Eval(b[2][1], Inside)
              IN  (IsReturnValue(first.val) \/ IsErrorValue(first.val))
                      => Eval(b, Here) = first

\* C3's case: evalProgram stopped at a ReturnValue or an Error after a let
\* statement had bound a name, and a two-statement block whose first
\* statement returns.
C3_Witness ==
    /\ pc = "returned"
    /\ IsReturnValue(result) \/ IsErrorValue(result)
    /\ \E n \in Names : env[n] # Unbound
    /\ \E b \in Blocks2 :
          /\ b[2][1][1] = "ReturnStatement"
          /\ IsReturnValue(Eval(b, Machine(env, heap)).val)

\* The truthiness rule as the language states it: only null and the boolean
\* false are falsy.
IsFalsy(v) == v[1] = O_NULL \/ (v[1] = O_BOOLEAN /\ v[2] = FALSE)
Faulted(v) == IsPanic(v) \/ IsErrorValue(v)

\* Operands of ! in C8: every leaf, and the negation of every leaf.
BangOperands == Leaves \cup {PrefixExpression("!", e) : e \in Leaves}

C9_ErrorShortCircuit ==
    Running =>
        /\ \A node \in PrefixExprs \cup IfExprs :
              LET sub == Eval(IF node[1] = "IfExpression" THEN node[2] ELSE node[3],
                              Inside)
              IN  IsErrorValue(sub.val) => Eval(node, Here) = sub
        /\ \A e \in Leaves \cup PrefixExprs :
              LET sub == Eval(e, Inside)
              IN  IsErrorValue(sub.val) =>
                      /\ Eval(ReturnStatement(e), Here) = sub
                      /\ \A n \in Names : Eval(LetStatement(n, e), Here) = sub
        /\ \A node \in InfixExprs :
              LET left == Eval(node[3], Inside)
              IN  IF IsErrorValue(left.val) THEN Eval(node, Here) = left
                  ELSE ~IsPanic(left.val) =>
                          LET right == Eval(node[4], left.m)
                          IN  IsErrorValue(right.val) => Eval(node, Here) = right

\* C9's case: evalProgram stopped at an expression statement whose infix
\* expression has an unbound name on the left and, on the right, an
\* if-expression that would bind a name: the statement yielded the left
\* operand's Error and the environment holds no binding by the right operand.
C9_Witness ==
    /\ pc = "returned"
    /\ last[1] = "ExpressionStatement"
    /\ last[2][1] = "InfixExpression"
    /\ last[2][3] \in Idents
    /\ last[2][4] \in BindingIfs
    /\ IsErrorValue(result)
    /\ result[2] = ERR_IDENTIFIER_UNKNOWN(last[2][3][2])
    /\ ret = result
    /\ Eval(last[2][4], Here).m.env # env

\* The integer results of + - * / and the results of the comparisons.
Arithmetic(op, x, y) ==
    CASE op = "+" -> x + y
      [] op = "-" -> x - y
      [] op = "*" -> x * y
      [] op = "/" -> Quot(x, y)
Comparison(op, x, y) ==
    CASE op = "==" -> x = y
      [] op = "!=" -> x # y
      [] op = "<" -> x < y
      [] op = ">" -> x > y

\* What C10 says the infix operator gives for two operand values.
InfixAsClaimed(op, l, r, out) ==
    CASE l[1] # r[1] ->
            IsErrorValue(out)
                /\ out[2] = "type mismatch: " \o l[1] \o " " \o op \o " " \o r[1]
      [] l[1] = O_INTEGER /\ r[1] = O_INTEGER /\ op \in {"+", "-", "*", "/"} ->
            out[1] = O_INTEGER
                /\ ((op = "/" /\ r[2] = 0) \/ out[2] = Arithmetic(op, l[2], r[2]))
      [] l[1] = O_INTEGER /\ r[1] = O_INTEGER /\ op \in {"==", "!=", "<", ">"} ->
            out = (IF Comparison(op, l[2], r[2]) THEN TRUE_OBJ ELSE FALSE_OBJ)
      [] l[1] = r[1] /\ l[1] # O_INTEGER /\ op \in {"==", "!="} ->
            /\ out = (IF (l = r) = (op = "==") THEN TRUE_OBJ ELSE FALSE_OBJ)
            /\ l[1] = O_BOOLEAN => (l = r) = (l[2] = r[2])
            /\ l[1] = O_NULL => l = r
      [] OTHER ->
            IsErrorValue(out)
                /\ out[2] = "unknown operator: " \o l[1] \o " " \o op \o " " \o r[1]

\* C10: the infix operator applied to two operand values (neither an Error)
\* gives what the four rules say.  Stated of the expression statement that
\* ended evalProgram, whose operands are literals or names.
C10_InfixDispatch ==
    (/\ last[1] = "ExpressionStatement"
     /\ last[2][1] = "InfixExpression"
     /\ last[2][3] \in IntLits \cup Idents
     /\ last[2][4] \in IntLits \cup Idents)
        => LET lv == Eval(last[2][3], Here).val
               rv == Eval(last[2][4], Here).val
           IN  (~IsErrorValue(lv) /\ ~IsErrorValue(rv) /\ lv # Nil /\ rv # Nil)
                   => InfixAsClaimed(last[2][2], lv, rv, result)

\* Value expressions of the let statements of C11, and of its sequences.
LetValues == ValueExprs \cup BindThenName
SeqValues == Leaves

\* C11: a let statement whose value expression yields an Error yields that
\* very Error and leaves the environment, the heap and the count of Eval
\* calls as the value expression left them.  One whose value expression
\* yields a value that is no Error yields no value and changes, in the
\* environment the value expression left, the binding of its name only: the
\* name is bound to the value, an earlier binding overwritten, and looking
\* the name up gives that value.  After two let statements for one name, the
\* first successful, looking the name up gives the value of the second when
\* it succeeded and of the first when it yielded an Error.
C11_LetBinding ==
    Running =>
        /\ \A n \in Names, e \in LetValues :
              LET sub == Eval(e, Inside)
                  r == Eval(LetStatement(n, e), Here)
              IN  /\ IsErrorValue(sub.val) => r = sub
                  /\ ~Faulted(sub.val) =>
                        /\ r.val = Nil
                        /\ r.m.env[n] = sub.val
                        /\ \A k \in Names \ {n} : r.m.env[k] = sub.m.env[k]
                        /\ r.m.heap = sub.m.heap
                        /\ r.m.calls = sub.m.calls
                        /\ Eval(Identifier(n), r.m).val = sub.val
        /\ \A n \in Names, e1 \in SeqValues, e2 \in SeqValues :
              LET v1 == Eval(e1, Here)
                  r1 == Eval(LetStatement(n, e1), Here)
                  v2 == Eval(e2, r1.m)
                  r2 == Eval(LetStatement(n, e2), r1.m)
              IN  ~Faulted(v1.val) /\ ~IsPanic(v2.val) =>
                      Eval(Identifier(n), r2.m).val
                          = IF IsErrorValue(v2.val) THEN v1.val ELSE v2.val

\* C11's case: evalProgram ran a let statement that bound a name to 1 and
\* then stopped at a let statement for the same name whose value expression
\* yielded an Error: the name is still bound to 1, and a let statement for it
\* evaluated here overwrites that binding and leaves the other name alone.
C11_Witness ==
    /\ pc = "returned"
    /\ count = 2
    /\ last[1] = "LetStatement"
    /\ IsErrorValue(result)
    /\ ret = result
    /\ env[last[2]] = Integer(1)
    /\ LET r == Eval(LetStatement(last[2], IntegerLiteral(0)), Here)
       IN  /\ r.val = Nil
           /\ r.m.env = [env EXCEPT ![last[2]] = Integer(0)]

\* C11 as stated, for the first statement of a program: when the value
\* expression of a let statement yields an Error, the environment is left
\* exactly as it was before the statement, so no name is bound.
C11_ErrorLeavesEnvironmentAsItWas ==
    (/\ pc = "returned"
     /\ count = 1
     /\ last[1] = "LetStatement"
     /\ IsErrorValue(result))
        => env = NewEnvironment

\* --------------------------------------------------------- claims: parser

\* The textual form of an expression and of a program of expression
\* statements: infix nodes as (left op right), prefix nodes as (op operand),
\* every statement followed by a semicolon.
RECURSIVE String(_)
String(node) ==
    CASE node[1] = "Identifier" -> node[2]
      [] node[1] = "PrefixExpression" -> "(" \o node[2] \o String(node[3]) \o ")"
      [] node[1] = "InfixExpression" ->
            "(" \o String(node[3]) \o " " \o node[2] \o " " \o String(node[4]) \o ")"
      [] node[1] = "ExpressionStatement" -> String(node[2]) \o ";"

\* What a statement is: its kind and, for a let statement, its name.
Outline(stmt) ==
    IF stmt[1] = "LetStatement" THEN <<stmt[1], stmt[2]>> ELSE <<stmt[1]>>

Sources1 == source.stmts
WellFormed(i) == Sources1[i].form # "malformed"

\* C4: an input of well-formed statements let <name> = <integer or name>;
\* parses to one let statement per input statement, in order, with the
\* statement's name and the node of the bound literal or name as its value.
C4_LetStatements ==
    (/\ ppc = "done"
     /\ Sources1 # <<>>
     /\ source.terminated
     /\ \A i \in DOMAIN Sources1 : Sources1[i].form = "let")
        => program = [i \in DOMAIN Sources1 |-> Sources1[i].stmt]

\* C5: an input of one expression parses to one expression statement whose
\* text is the fully parenthesized expression.
C5_OperatorPrecedence ==
    (/\ ppc = "done"
     /\ Len(Sources1) = 1
     /\ Sources1[1].form = "expression")
        => /\ Len(program) = 1
           /\ program[1][1] = "ExpressionStatement"
           /\ String(program[1]) = String(Sources1[1].stmt)

\* C6: when a malformed let statement is followed by well-formed statements
\* only, parsing ends with at least one diagnostic logged and with every one
\* of those statements in the program, in order, at its end.
C6_MalformedLetRecovery ==
    ppc = "done" =>
        \A k \in DOMAIN Sources1 :
            (/\ ~WellFormed(k)
             /\ \A j \in DOMAIN Sources1 : j > k => WellFormed(j))
                => /\ parser.log # <<>>
                   /\ Len(program) >= Len(Sources1) - k
                   /\ \A j \in DOMAIN Sources1 :
                         j > k =>
                             Outline(program[Len(program) - (Len(Sources1) - j)])
                                 = Outline(Sources1[j].stmt)

\* C7: when the input consists of well-formed let statements and ends
\* without the separator after the last one, that statement is in the
\* program all the same and no diagnostic is logged.
C7_MissingSeparatorTolerated ==
    (/\ ppc = "done"
     /\ Sources1 # <<>>
     /\ ~source.terminated
     /\ \A i \in DOMAIN Sources1 : Sources1[i].form = "let")
        => /\ parser.log = <<>>
           /\ Len(program) = Len(Sources1)
           /\ Outline(program[Len(program)])
                  = Outline(Sources1[Len(Sources1)].stmt)

=============================================================================
